---- MODULE Spec2Model ----
(***************************************************************************)
(* Model of bfrvc/unit/tools/model_download.py: the download pipeline      *)
(* model_download = download_from_url -> extract -> clean_extracted_files  *)
(* -> search_pth_index, over an abstract file system.                      *)
(*                                                                         *)
(* Strings are sequences of tokens.  A token is an atomic piece of text    *)
(* (a marker such as "file/d/" or ".pth", or an ordinary character run);   *)
(* the token sets are chosen so that a marker never arises across a token  *)
(* boundary, which makes Python's substring tests, split and replace exact *)
(* on token sequences.  Paths are sequences of directory names.            *)
(***************************************************************************)
EXTENDS Naturals, Sequences, FiniteSets, TLC

VARIABLES
  hdr, saved,                               \* save_response_content
  url, resp, fstaging, fres,                \* download_from_url
  cdir, cmodel, cpc, crun, cfound, cagain,  \* clean_extracted_files
  pc, staging, logs, calls, cur, trace, result                   \* model_download

vars == <<hdr, saved, url, resp, fstaging, fres,
          cdir, cmodel, cpc, crun, cfound, cagain,
          pc, staging, logs, calls, cur, trace, result>>

headerVars == <<hdr, saved>>
fetchVars  == <<url, resp, fstaging, fres>>
cleanVars  == <<cdir, cmodel, cpc, crun, cfound, cagain>>
pipeVars   == <<pc, staging, logs, calls, cur, trace, result>>

(***************************************************************************)
(* Bounds of the model.                                                    *)
(***************************************************************************)
MaxHdrLen == 6
MaxUrlLen == 4
MaxTop == 4
MaxSub == 3
MaxCalls == 3

(***************************************************************************)
(* Generic string helpers on token sequences.                              *)
(***************************************************************************)
SeqsUpTo(S, n) == UNION {[1..k -> S] : k \in 0..n}

Contains(tok, s) == \E i \in 1..Len(s) : s[i] = tok

\* str.replace(old, new) for single-token old: every occurrence is replaced.
ReplaceAll(s, old, new) == [i \in 1..Len(s) |-> IF s[i] = old THEN new ELSE s[i]]

\* Index of the first element of s that lies in the set T, or 0.
FirstIn(s, T) ==
  IF \E i \in 1..Len(s) : s[i] \in T
  THEN CHOOSE i \in 1..Len(s) : s[i] \in T /\ \A j \in 1..(i-1) : s[j] \notin T
  ELSE 0

\* The part of s before its first element in T (all of s when there is none).
Before(s, T) == IF FirstIn(s, T) = 0 THEN s ELSE SubSeq(s, 1, FirstIn(s, T) - 1)

\* The part of s after its first element in T.
After(s, T) == SubSeq(s, FirstIn(s, T) + 1, Len(s))

(***************************************************************************)
(* The directories of lines 18-21.                                         *)
(***************************************************************************)
base_path == <<"home", ".bfrvc">>
logs_path == base_path \o <<"logs">>
zips_path == logs_path \o <<"zips">>

\* os.path.sep on the POSIX platforms the "~/.bfrvc" layout targets.
PathSep == "/"

(***************************************************************************)
(* save_response_content (lines 121-145).                                  *)
(***************************************************************************)
Quote == "\""
HdrTok == {"filename=", Quote, "/", "%2F", "..", "m"}
Headers == SeqsUpTo(HdrTok, MaxHdrLen)

\* urllib.parse.unquote: percent-escapes are decoded.
Unquote(h) == ReplaceAll(h, "%2F", "/")

\* A match of filename="([^"]+)" starting at position i.
MatchAt(h, i) ==
  /\ i + 3 <= Len(h)
  /\ h[i] = "filename="
  /\ h[i+1] = Quote
  /\ h[i+2] # Quote
  /\ \E j \in (i+3)..Len(h) : h[j] = Quote

\* re.search: the leftmost match; group(1) runs to the next quote.
HasMatch(h) == \E i \in 1..Len(h) : MatchAt(h, i)
MatchGroup(h) ==
  LET i == CHOOSE k \in 1..Len(h) : MatchAt(h, k) /\ \A l \in 1..(k-1) : ~MatchAt(h, l)
      rest == SubSeq(h, i + 2, Len(h))
  IN  Before(rest, {Quote})

\* Lines 132: .replace(os.path.sep, "_")
SanitizeNoReplace(name) == name
Sanitize(name) == ReplaceAll(name, PathSep, "_")

\* Lines 128-135: the output file name.  An absent header is the empty
\* string (headers.get("Content-Disposition", "")).
FileNameOf(hd) ==
  LET cd == Unquote(hd)
  IN  IF cd # <<>> /\ HasMatch(cd) THEN Sanitize(MatchGroup(cd))
      ELSE <<"downloaded_file">>

\* str.split(sep) for a single-token separator.
RECURSIVE SplitOn(_, _)
SplitOn(s, sep) ==
  IF s = <<>> THEN << <<>> >>
  ELSE LET rest == SplitOn(Tail(s), sep)
       IN  IF Head(s) = sep THEN << <<>> >> \o rest
           ELSE << <<Head(s)>> \o Head(rest) >> \o Tail(rest)

\* Kernel path resolution of the components comps from directory dir: the
\* directory reached, or ok = FALSE when a component does not exist.  Empty
\* components are skipped and ".." is the parent; no name that can be built
\* from HdrTok is one of the existing directories, so any other component
\* fails to resolve.
RECURSIVE Walk(_, _)
Walk(dir, comps) ==
  IF comps = <<>> THEN [ok |-> TRUE, dir |-> dir]
  ELSE LET c == Head(comps)
       IN  IF c = <<>> THEN Walk(dir, Tail(comps))
           ELSE IF c = <<"..">>
                THEN Walk(IF dir = <<>> THEN dir ELSE SubSeq(dir, 1, Len(dir) - 1),
                          Tail(comps))
           ELSE [ok |-> FALSE, dir |-> dir]

NoWrite == [ok |-> FALSE, dir |-> <<>>, name |-> <<>>]

\* Line 140: open(os.path.join(zips_path, file_name), "wb").  os.path.join
\* drops zips_path when file_name is absolute.  The result names the
\* directory and entry written, or ok = FALSE when open() raises (a missing
\* parent, or a name that is a directory).
OpenForWrite(name) ==
  LET comps == SplitOn(name, PathSep)
      start == IF name # <<>> /\ Head(name) = PathSep THEN <<>> ELSE zips_path
      parent == Walk(start, SubSeq(comps, 1, Len(comps) - 1))
      last == comps[Len(comps)]
  IN  IF ~parent.ok \/ last = <<>> \/ last = <<"..">>
      THEN NoWrite
      ELSE [ok |-> TRUE, dir |-> parent.dir, name |-> last]

\* save_response_content as a whole: the file written, if any.
SaveResponseContent(hd) == OpenForWrite(FileNameOf(hd))

(***************************************************************************)
(* The staging directory: a function from file names to file contents.     *)
(***************************************************************************)
EmptyDir == [n \in {} |-> 0]

WriteFile(st, name, body) == (name :> body) @@ st

\* Lines 140-145 on the staging directory st: the body is written under the
\* derived name; raised = TRUE when open() fails; outside = TRUE when the
\* file lands in another directory than zips_path.
SaveInto(st, hd, body) ==
  LET w == SaveResponseContent(hd)
  IN  IF ~w.ok THEN [raised |-> TRUE, outside |-> FALSE, staging |-> st]
      ELSE IF w.dir # zips_path THEN [raised |-> FALSE, outside |-> TRUE, staging |-> st]
      ELSE [raised |-> FALSE, outside |-> FALSE, staging |-> WriteFile(st, w.name, body)]

(***************************************************************************)
(* download_from_url and its strategies (lines 49-201).                    *)
(***************************************************************************)
UrlTok == {"drive.google.com", "file/d/", "id=", "/", "&",
           "/blob/", "/resolve/", "/tree/main", "x"}
Urls == SeqsUpTo(UrlTok, MaxUrlLen)

\* The tokens that hold the character "/"; all but "file/d/" start with it.
SlashTok == {"/", "/blob/", "/resolve/", "/tree/main", "file/d/"}

NoId == [found |-> FALSE, id |-> <<>>]

\* Lines 97-101.  split(m)[1] is the text between the first and the second
\* occurrence of m; split(c)[0] the text before the first c.
ExtractLastSegment(u) ==
  IF Contains("file/d/", u)
  THEN [found |-> TRUE, id |-> After(u, {"file/d/"})]
  ELSE IF Contains("id=", u)
  THEN [found |-> TRUE, id |-> After(u, {"id="})]
  ELSE NoId
extract_google_drive_id(u) ==
  IF Contains("file/d/", u)
  THEN [found |-> TRUE, id |-> Before(Before(After(u, {"file/d/"}), {"file/d/"}), SlashTok)]
  ELSE IF Contains("id=", u)
  THEN [found |-> TRUE, id |-> Before(Before(After(u, {"id="}), {"id="}), {"&"})]
  ELSE NoId

NoErr == [kind |-> "none", code |-> 0]
ValueError(code) == [kind |-> "ValueError", code |-> code]

\* What the network answers to one call: the status and Content-Disposition
\* of the file request, its body, the hrefs of a listing page, and how the
\* Google Drive downloader ends.
StatusCodes == {200, 404, 500}
FetchHeaders == {<<>>, <<"filename=", Quote, "m", ".zip", Quote>>}
ListingPages == {<<>>, << <<"x">>, <<"/blob/", "x", ".zip">> >>}
GdownEnds == {"ok", "none", "raise"}
DefaultResponse == [status |-> 200, header |-> <<>>, body |-> "new",
                    links |-> <<>>, gdown |-> "none"]

\* The outcome of a strategy: the URLs requested, the exception raised (if
\* any) and the staging directory afterwards.
Outcome(req, err, st, outside) ==
  [requested |-> req, err |-> err, staging |-> st, outside |-> outside]

\* Lines 185-189 (and 115-119): GET, then save on 200, else ValueError.
download_file_keep(u, r, st) ==
  LET s == SaveInto(st, r.header, r.body)
  IN  Outcome(<<u>>, IF r.status = 200 THEN NoErr ELSE ValueError(r.status),
              s.staging, s.outside)
download_file(u, r, st) ==
  IF r.status = 200
  THEN LET s == SaveInto(st, r.header, r.body)
       IN  Outcome(<<u>>, IF s.raised THEN [kind |-> "OSError", code |-> 0] ELSE NoErr,
                   s.staging, s.outside)
  ELSE Outcome(<<u>>, ValueError(r.status), st, FALSE)

\* Line 114: str.replace replaces every occurrence.
BlobToResolve(u) == ReplaceAll(u, "/blob/", "/resolve/")

\* Lines 113-119.
download_blob_or_resolve(u, r, st) ==
  download_file(IF Contains("/blob/", u) THEN BlobToResolve(u) ELSE u, r, st)

\* Lines 157-173: the first href ending in ".zip"; "blob" -> "resolve"
\* everywhere; the host is prefixed when missing.
download_from_huggingface(u, r, st) ==
  LET zipIdx == {i \in 1..Len(r.links) :
                   r.links[i] # <<>> /\ r.links[i][Len(r.links[i])] = ".zip"}
  IN  IF zipIdx = {}
      THEN Outcome(<<u>>, [kind |-> "NoZipFound", code |-> 0], st, FALSE)
      ELSE LET first == CHOOSE i \in zipIdx : \A j \in zipIdx : i <= j
               t == ReplaceAll(r.links[first], "/blob/", "/resolve/")
               full == IF Contains("huggingface.co", t) THEN t
                       ELSE <<"https://huggingface.co">> \o t
               o == download_file(full, r, st)
           IN  [o EXCEPT !.requested = <<u>> \o @]

\* gdown.download (lines 65-69): saves the file into the working directory
\* (zips_path), returns without a file, or raises.
Gdown(id, r, st) ==
  LET req == << <<"https://drive.google.com/uc?id=">> \o id >>
  IN  CASE r.gdown = "ok" -> Outcome(req, NoErr, WriteFile(st, <<"g", ".zip">>, r.body), FALSE)
        [] r.gdown = "none" -> Outcome(req, NoErr, st, FALSE)
        [] OTHER -> Outcome(req, [kind |-> "gdown", code |-> 0], st, FALSE)

\* Lines 195-201: no name in a directory holds os.path.sep, so every
\* new_path equals real_path.
rename_downloaded_files(st) ==
  [m \in {ReplaceAll(n, PathSep, "_") : n \in DOMAIN st} |->
     st[CHOOSE n \in DOMAIN st : ReplaceAll(n, PathSep, "_") = m]]

\* Lines 59-85.  ret is "downloaded" or "None".
download_from_url(u, r, st) ==
  LET o == IF Contains("drive.google.com", u)
           THEN LET fid == extract_google_drive_id(u)
                IN  IF fid.found /\ fid.id # <<>>
                    THEN Gdown(fid.id, r, st)
                    ELSE Outcome(<<>>, [kind |-> "InvalidDriveUrl", code |-> 0], st, FALSE)
           ELSE IF Contains("/blob/", u) \/ Contains("/resolve/", u)
           THEN download_blob_or_resolve(u, r, st)
           ELSE IF Contains("/tree/main", u)
           THEN download_from_huggingface(u, r, st)
           ELSE download_file(u, r, st)
  IN  IF o.err = NoErr
      THEN [ret |-> "downloaded", requested |-> o.requested, err |-> o.err,
            staging |-> rename_downloaded_files(o.staging), outside |-> o.outside]
      ELSE [ret |-> "None", requested |-> o.requested, err |-> o.err,
            staging |-> o.staging, outside |-> o.outside]

\* The strategy line 62-78 selects.
Strategy(u) ==
  IF Contains("drive.google.com", u) THEN "drive"
  ELSE IF Contains("/blob/", u) \/ Contains("/resolve/", u) THEN "blob"
  ELSE IF Contains("/tree/main", u) THEN "tree"
  ELSE "generic"

(***************************************************************************)
(* Directories.  A directory is a function from entry names to entries; an *)
(* entry is [kind, id, items]: kind is "file" or "dir", id tells entries   *)
(* apart (the content of a file), items is the directory's own content.    *)
(***************************************************************************)
File(id) == [kind |-> "file", id |-> id, items |-> EmptyDir]
Dir(id, items) == [kind |-> "dir", id |-> id, items |-> items]

Without(d, names) == [n \in DOMAIN d \ names |-> d[n]]

MACOSX == <<"__MACOSX">>
ModelPth(mn) == mn \o <<".pth">>
ModelIndex(mn) == mn \o <<".index">>

(***************************************************************************)
(* search_pth_index (lines 23-47): the top-level regular files whose name  *)
(* ends in .pth / .index.  os.listdir gives them in no particular order,   *)
(* so each list is modelled as the set of its names.                       *)
(***************************************************************************)
EndsWith(n, ext) == n # <<>> /\ n[Len(n)] = ext
search_pth_index(d) ==
  [pth   |-> {n \in DOMAIN d : d[n].kind = "file" /\ EndsWith(n, ".pth")},
   index |-> {n \in DOMAIN d : d[n].kind = "file" /\ EndsWith(n, ".index")}]

(***************************************************************************)
(* clean_extracted_files (lines 286-322).                                  *)
(***************************************************************************)
\* Lines 294-296.  shutil.rmtree raises on a regular file.
MacosxKept(d) == [raised |-> FALSE, dir |-> d]
MacosxStep(d) ==
  IF MACOSX \notin DOMAIN d THEN [raised |-> FALSE, dir |-> d]
  ELSE IF d[MACOSX].kind = "file" THEN [raised |-> TRUE, dir |-> d]
  ELSE [raised |-> FALSE, dir |-> Without(d, {MACOSX})]

\* Lines 298-302.
Subfolders(d) == {n \in DOMAIN d : d[n].kind = "dir"}

\* Line 306: shutil.move(subfolder/item, folder/item) raises when the
\* destination is an existing directory that already holds an entry of
\* that name (only the subfolder itself can be one), and when a directory
\* is moved onto an existing regular file.
MoveRaises(d, w, item) ==
  \/ item = w
  \/ /\ d[w].items[item].kind = "dir"
     /\ item \in DOMAIN d
     /\ d[item].kind = "file"

\* The directory after the items of `moved` have left the subfolder w for
\* the top level; os.rename replaces a regular file of the same name.
MoveUp(d, w, moved) ==
  [n \in moved |-> d[w].items[n]] @@
  [n \in DOMAIN d |-> IF n = w THEN [d[w] EXCEPT !.items = Without(d[w].items, moved)]
                                ELSE d[n]]

\* Lines 303-310: every outcome of the hoist over the orders os.listdir may
\* give.  Without a raise every item moves and the subfolder is removed;
\* with one, the items listed before the offending item have moved.
HoistNever(d) == {[raised |-> FALSE, dir |-> d, hoisted |-> FALSE, moved |-> {}]}
HoistStep(d) ==
  IF Cardinality(Subfolders(d)) # 1
  THEN {[raised |-> FALSE, dir |-> d, hoisted |-> FALSE, moved |-> {}]}
  ELSE LET w == CHOOSE n \in Subfolders(d) : TRUE
           items == DOMAIN d[w].items
           bad == {i \in items : MoveRaises(d, w, i)}
       IN  IF bad = {}
           THEN {[raised |-> FALSE, dir |-> Without(MoveUp(d, w, items), {w}),
                  hoisted |-> TRUE, moved |-> items]}
           ELSE {[raised |-> TRUE, dir |-> MoveUp(d, w, m), hoisted |-> TRUE, moved |-> m] :
                   m \in SUBSET (items \ bad)}

\* Lines 313-322 for one listed item.
NewName(item, mn) ==
  IF Contains(".pth", item) THEN ModelPth(mn) ELSE ModelIndex(mn)
Marked(item) == Contains(".pth", item) \/ Contains(".index", item)
RenameOne(d, item, mn) ==
  IF ~Marked(item) THEN d
  ELSE IF NewName(item, mn) \in DOMAIN d THEN d
  ELSE (NewName(item, mn) :> d[item]) @@ Without(d, {item})

\* Lines 312-322: the loop over a listing taken once, in any order.  An
\* unmarked item is skipped (line 319), so only the marked ones are followed.
RECURSIVE RenameLoop(_, _, _)
RenameLoop(d, todo, mn) ==
  IF todo = {} THEN {d}
  ELSE UNION {RenameLoop(RenameOne(d, x, mn), todo \ {x}, mn) : x \in todo}
RenameStep(d, mn) == RenameLoop(d, {n \in DOMAIN d : Marked(n)}, mn)

\* Lines 286-322: every outcome of one call.
clean_extracted_files(d, mn) ==
  LET mac == MacosxStep(d)
  IN  IF mac.raised
      THEN {[raised |-> TRUE, afterMac |-> d, listed |-> d, post |-> d,
             hoisted |-> FALSE, moved |-> {}]}
      ELSE UNION {
             IF h.raised
             THEN {[raised |-> TRUE, afterMac |-> mac.dir, listed |-> h.dir, post |-> h.dir,
                    hoisted |-> h.hoisted, moved |-> h.moved]}
             ELSE {[raised |-> FALSE, afterMac |-> mac.dir, listed |-> h.dir, post |-> p,
                    hoisted |-> h.hoisted, moved |-> h.moved] : p \in RenameStep(h.dir, mn)}
             : h \in HoistStep(mac.dir)}

\* The answers that matter to the strategy u selects (the other fields are
\* never read by it and stay at their defaults).
ResponsesFor(u) ==
  CASE Strategy(u) = "drive" ->
         {[DefaultResponse EXCEPT !.gdown = g] : g \in GdownEnds}
    [] Strategy(u) = "tree" ->
         {[DefaultResponse EXCEPT !.status = c, !.links = l,
                                  !.header = <<"filename=", Quote, "m", ".zip", Quote>>] :
            c \in StatusCodes, l \in ListingPages}
    [] OTHER ->
         {[DefaultResponse EXCEPT !.status = c, !.header = h] :
            c \in StatusCodes, h \in FetchHeaders}

OldStaging == (<<"old", ".zip">> :> "old")

HeaderOff == hdr = "off" /\ saved = "off"
FetchOff == url = "off" /\ resp = "off" /\ fstaging = "off" /\ fres = "off"
CleanOff ==
  /\ cdir = "off" /\ cmodel = "off" /\ cpc = "off" /\ crun = "off"
  /\ cfound = "off" /\ cagain = "off"
PipeOff ==
  /\ pc = "off" /\ staging = "off" /\ logs = "off" /\ calls = "off"
  /\ cur = "off" /\ trace = "off" /\ result = "off"

(***************************************************************************)
(* SpecHeader: save_response_content applied to every header.              *)
(***************************************************************************)
HeaderInit ==
  /\ hdr \in Headers
  /\ saved = [done |-> FALSE, file |-> NoWrite]
  /\ FetchOff /\ CleanOff /\ PipeOff

Save ==
  /\ ~saved.done
  /\ saved' = [done |-> TRUE, file |-> SaveResponseContent(hdr)]
  /\ UNCHANGED <<hdr, fetchVars, cleanVars, pipeVars>>

HeaderNext == Save

SpecHeader == HeaderInit /\ [][HeaderNext]_vars

\* The quoted filename of a raw header, stated on positions: the header
\* holds filename=" at i, a closing quote at j, and no quote in between.
QuotedAt(h, i, j) ==
  /\ i + 3 <= j /\ j <= Len(h)
  /\ h[i] = "filename=" /\ h[i+1] = Quote /\ h[j] = Quote
  /\ \A k \in (i+2)..(j-1) : h[k] # Quote
HasQuoted(h) == \E i, j \in 1..Len(h) : QuotedAt(h, i, j)
IsSeparator(t) == t \in {"/", "%2F"}

\* C3: the name written is the quoted filename of the content-disposition
\* header with every path separator (literal or percent-encoded) replaced by
\* an underscore; it is downloaded_file when the header is absent or has no
\* quoted filename; and whatever the header, a file that is written lies
\* directly inside the staging directory.
C3_SavedInsideStaging ==
  saved.done =>
    /\ saved.file.ok =>
          /\ saved.file.dir = zips_path
          /\ ~Contains(PathSep, saved.file.name)
          /\ saved.file.name \notin {<<>>, <<"..">>}
    /\ \A i, j \in 1..Len(hdr) :
          (QuotedAt(hdr, i, j) /\ \A i2 \in 1..(i-1), j2 \in 1..Len(hdr) : ~QuotedAt(hdr, i2, j2))
          => \/ /\ ~saved.file.ok
                /\ SubSeq(hdr, i+2, j-1) = <<"..">>
             \/ /\ saved.file.ok
                /\ Len(saved.file.name) = j - i - 2
                /\ \A k \in 1..(j-i-2) :
                     saved.file.name[k] =
                       IF IsSeparator(hdr[i+1+k]) THEN "_" ELSE hdr[i+1+k]
    /\ ~HasQuoted(hdr) =>
          saved.file = [ok |-> TRUE, dir |-> zips_path, name |-> <<"downloaded_file">>]
    /\ hdr = <<"filename=", Quote, "m", "/", "m", Quote>> =>
          saved.file = [ok |-> TRUE, dir |-> zips_path, name |-> <<"m", "_", "m">>]

\* C3 witness: a header whose quoted filename climbs out of the staging
\* directory ("../m") has been saved, as the single name ".._m".
C3_Witness ==
  /\ saved.done
  /\ hdr = <<"filename=", Quote, "..", "/", "m", Quote>>
  /\ saved.file = [ok |-> TRUE, dir |-> zips_path, name |-> <<"..", "_", "m">>]

(***************************************************************************)
(* SpecFetch: download_from_url applied to every URL and answer.           *)
(***************************************************************************)
FetchInit ==
  /\ url \in Urls
  /\ resp = DefaultResponse
  /\ fstaging = OldStaging
  /\ fres = [done |-> FALSE]
  /\ HeaderOff /\ CleanOff /\ PipeOff

Download ==
  /\ ~fres.done
  /\ \E r \in ResponsesFor(url) :
       /\ resp' = r
       /\ fres' = [done |-> TRUE] @@ download_from_url(url, r, fstaging)
  /\ UNCHANGED <<url, fstaging, headerVars, cleanVars, pipeVars>>

FetchNext == Download

SpecFetch == FetchInit /\ [][FetchNext]_vars

\* The identifier a Drive URL carries, stated on positions: id is the
\* longest run after the marker at position i that holds no token of stop.
RunAfter(u, i, stop, id) ==
  \E k \in i..Len(u) :
    /\ id = SubSeq(u, i + 1, k)
    /\ \A m \in (i+1)..k : u[m] \notin stop
    /\ k = Len(u) \/ u[k+1] \in stop
\* .../file/d/<ID>/...: the first file/d/ marker, then a non-empty <ID>.
MatchesFilePattern(u, id) ==
  /\ id # <<>>
  /\ \E i \in 1..Len(u) :
       /\ u[i] = "file/d/" /\ \A j \in 1..(i-1) : u[j] # "file/d/"
       /\ RunAfter(u, i, SlashTok, id)
\* ...?id=<ID>...: no file/d/ marker, the first id= marker, a non-empty <ID>.
MatchesIdPattern(u, id) ==
  /\ id # <<>>
  /\ ~Contains("file/d/", u)
  /\ \E i \in 1..Len(u) :
       /\ u[i] = "id=" /\ \A j \in 1..(i-1) : u[j] # "id="
       /\ RunAfter(u, i, {"&", "id="}, id)
\* The candidate identifiers: the contiguous pieces of the URL.
Ids(u) == {SubSeq(u, a, b) : a \in 1..(Len(u) + 1), b \in 0..Len(u)}

ReplaceFirst(s, old, new) ==
  [i \in 1..Len(s) |-> IF i = FirstIn(s, {old}) THEN new ELSE s[i]]

\* C8: for a URL containing /blob/ the URL requested is the URL with exactly
\* its first /blob/ replaced by /resolve/, every later /blob/ kept.
C8_FirstBlobOnly ==
  (fres.done /\ Strategy(url) = "blob" /\ Contains("/blob/", url)) =>
    fres.requested = << ReplaceFirst(url, "/blob/", "/resolve/") >>

\* C9: a non-200 answer to a generic-strategy URL gives a ValueError that
\* carries the status code, leaves the staging directory as it was, and
\* makes download_from_url return None.
C9_Non200 ==
  (fres.done /\ Strategy(url) = "generic" /\ resp.status # 200) =>
    /\ fres.err = ValueError(resp.status)
    /\ fres.staging = fstaging
    /\ ~fres.outside
    /\ fres.ret = "None"

\* C9 witness: a generic URL answered 404, with a filename header on offer.
C9_Witness ==
  /\ fres.done
  /\ Strategy(url) = "generic" /\ url # <<>>
  /\ resp.status = 404 /\ resp.header # <<>>
  /\ fres.err = ValueError(404)
  /\ fres.ret = "None"

(***************************************************************************)
(* SpecClean: clean_extracted_files, then search_pth_index, applied to     *)
(* every extraction directory of up to MaxTop entries, whose wrapper       *)
(* folder holds up to MaxSub items, under a plain model name and under one *)
(* that itself holds the weights marker (an archive named m.pth.zip).      *)
(***************************************************************************)
ModelNames == {<<"m">>, <<"m", ".pth">>}
Wrapper == <<"wrapper">>
DirNames == {MACOSX, Wrapper, <<"other">>, <<"inner">>}
TopNames(mn) == {<<"foo", ".pth">>, <<"bar", ".index">>, ModelPth(mn), ModelIndex(mn),
                 MACOSX, Wrapper, <<"other">>}
SubNames == {<<"a", ".pth">>, <<"b", ".index">>, <<"foo", ".pth">>,
             <<"inner">>, MACOSX, Wrapper}

Leaf(path) ==
  IF path[Len(path)] \in DirNames THEN Dir(path, EmptyDir) ELSE File(path)

ItemsOf(n, W) ==
  CASE n = Wrapper -> [i \in W |-> Leaf(<<n, i>>)]
    [] n = MACOSX -> (<<"._a", ".pth">> :> File(<<n, <<"._a", ".pth">> >>))
    [] OTHER -> (<<"c", ".pth">> :> File(<<n, <<"c", ".pth">> >>))

MkTree(S, W) ==
  [n \in S |-> IF n \in DirNames THEN Dir(<<n>>, ItemsOf(n, W)) ELSE File(<<n>>)]

SmallSubsets(S, k) == {T \in SUBSET S : Cardinality(T) <= k}

Trees(mn) ==
  UNION {{MkTree(S, W) : W \in IF Wrapper \in S THEN SmallSubsets(SubNames, MaxSub) ELSE {{}}} :
           S \in SmallSubsets(TopNames(mn), MaxTop)}

NoRun == [raised |-> FALSE, afterMac |-> EmptyDir, listed |-> EmptyDir, post |-> EmptyDir,
          hoisted |-> FALSE, moved |-> {}]
NoFound == [pth |-> {}, index |-> {}]

CleanInit ==
  /\ cmodel \in ModelNames
  /\ cdir \in Trees(cmodel)
  /\ cpc = "start"
  /\ crun = NoRun
  /\ cfound = NoFound
  /\ cagain = NoRun
  /\ HeaderOff /\ FetchOff /\ PipeOff

Clean ==
  /\ cpc = "start"
  /\ \E o \in clean_extracted_files(cdir, cmodel) :
       /\ crun' = o
       /\ cpc' = IF o.raised THEN "raised" ELSE "cleaned"
  /\ UNCHANGED <<cdir, cmodel, cfound, cagain, headerVars, fetchVars, pipeVars>>

Search ==
  /\ cpc = "cleaned"
  /\ cfound' = search_pth_index(crun.post)
  /\ cpc' = "searched"
  /\ UNCHANGED <<cdir, cmodel, crun, cagain, headerVars, fetchVars, pipeVars>>

CleanAgain ==
  /\ cpc = "searched"
  /\ \E o \in clean_extracted_files(crun.post, cmodel) :
       /\ cagain' = o
       /\ cpc' = IF o.raised THEN "raisedAgain" ELSE "cleanedAgain"
  /\ UNCHANGED <<cdir, cmodel, crun, cfound, headerVars, fetchVars, pipeVars>>

CleanNext == Clean \/ Search \/ CleanAgain

SpecClean == CleanInit /\ [][CleanNext]_vars

\* clean_extracted_files has returned normally.
Cleaned == cpc \in {"cleaned", "searched", "cleanedAgain", "raisedAgain"}
Ids_(d) == {d[n].id : n \in DOMAIN d}
SubfolderIds(d) == {d[n].id : n \in Subfolders(d)}

\* C2 as stated: after a successful run the target directory holds at most
\* one weights file and at most one index file, named <model_name>.pth and
\* <model_name>.index, no single-subfolder wrapper and no __MACOSX folder.
C2_AtMostOneEach ==
  cpc = "searched" =>
    /\ Cardinality(cfound.pth) <= 1 /\ cfound.pth \subseteq {ModelPth(cmodel)}
    /\ Cardinality(cfound.index) <= 1 /\ cfound.index \subseteq {ModelIndex(cmodel)}
    /\ Cardinality(Subfolders(crun.post)) # 1
    /\ MACOSX \notin DOMAIN crun.post

\* C2 as amended: after a successful run the __MACOSX folder found at the
\* top level is gone (one that remains was hoisted out of the wrapper); a
\* single wrapper folder found at the top level is gone; if the name of any
\* entry the rename step lists holds .pth, an entry <model_name>.pth exists,
\* and if one holds .index but not .pth, an entry <model_name>.index exists
\* (or, when the model name itself holds .pth, that entry has been renamed
\* on to <model_name>.pth); every weights and index file the search returns
\* is one of the directory's top-level files.
C2_Normalized ==
  cpc = "searched" =>
    /\ MACOSX \in DOMAIN crun.post => (crun.hoisted /\ MACOSX \in crun.moved)
    /\ MACOSX \in DOMAIN cdir => cdir[MACOSX].id \notin Ids_(crun.post)
    /\ Cardinality(Subfolders(crun.afterMac)) = 1 =>
          \A w \in Subfolders(crun.afterMac) : crun.afterMac[w].id \notin Ids_(crun.post)
    /\ (\E n \in DOMAIN crun.listed : Contains(".pth", n)) =>
          ModelPth(cmodel) \in DOMAIN crun.post
    /\ (\E n \in DOMAIN crun.listed : Contains(".index", n) /\ ~Contains(".pth", n)) =>
          \/ ModelIndex(cmodel) \in DOMAIN crun.post
          \/ Contains(".pth", cmodel) /\ ModelPth(cmodel) \in DOMAIN crun.post
    /\ cfound.pth \cup cfound.index \subseteq DOMAIN crun.post

\* C2 witness: an archive with __MACOSX, a wrapper holding a.pth, b.index
\* and a nested folder, and a second weights file beside them has been
\* normalised and searched.
C2_Witness ==
  /\ cpc = "searched"
  /\ cmodel = <<"m">>
  /\ DOMAIN cdir = {MACOSX, Wrapper, <<"foo", ".pth">>}
  /\ DOMAIN cdir[Wrapper].items = {<<"a", ".pth">>, <<"b", ".index">>, <<"inner">>}
  /\ cfound.index = {ModelIndex(cmodel)}
  /\ Cardinality(cfound.pth) = 2
  /\ Subfolders(crun.post) = {<<"inner">>}

\* C5 as stated: with exactly one subdirectory (a wrapper) every item of it
\* ends up directly under the extraction directory and the wrapper is gone;
\* with zero or more than one subdirectory nothing is hoisted and no
\* subdirectory is removed.
C5_HoistBySubdirCount ==
  Cleaned =>
    /\ \A w \in Subfolders(cdir) :
         (Subfolders(cdir) = {w} /\ w # MACOSX) =>
           /\ \A i \in DOMAIN cdir[w].items : cdir[w].items[i].id \in Ids_(crun.post)
           /\ cdir[w].id \notin Ids_(crun.post)
    /\ Cardinality(Subfolders(cdir)) # 1 =>
         /\ ~crun.hoisted /\ crun.moved = {}
         /\ SubfolderIds(crun.post) = SubfolderIds(cdir)

\* C5 as amended: the subdirectories counted are those other than __MACOSX
\* (a folder, removed first).  With exactly one such subdirectory every
\* item of it becomes an entry directly under the extraction directory and
\* the wrapper is gone, unless an item is named like the wrapper itself or
\* is a folder named like a top-level file: shutil.move then raises, the
\* call fails and the wrapper stays.  With zero or more than one such
\* subdirectory the call returns, nothing is hoisted and no subdirectory
\* besides __MACOSX is removed.
C5_HoistAfterMacosx ==
  cpc # "start" =>
    /\ \A w \in Subfolders(cdir) \ {MACOSX} :
         Subfolders(cdir) \ {MACOSX} = {w} =>
           IF \E i \in DOMAIN cdir[w].items :
                \/ i = w
                \/ /\ cdir[w].items[i].kind = "dir"
                   /\ i \in DOMAIN cdir /\ cdir[i].kind = "file"
           THEN /\ cpc = "raised"
                /\ cdir[w].id \in Ids_(crun.post)
           ELSE /\ Cleaned
                /\ crun.hoisted /\ crun.moved = DOMAIN cdir[w].items
                /\ \A i \in DOMAIN cdir[w].items :
                     \E n \in DOMAIN crun.post : crun.post[n] = cdir[w].items[i]
                /\ cdir[w].id \notin Ids_(crun.post)
    /\ Cardinality(Subfolders(cdir) \ {MACOSX}) # 1 =>
         /\ Cleaned
         /\ ~crun.hoisted /\ crun.moved = {}
         /\ \A n \in Subfolders(cdir) \ {MACOSX} :
              n \in DOMAIN crun.post /\ crun.post[n] = cdir[n]
         /\ SubfolderIds(crun.post) = SubfolderIds(Without(cdir, {MACOSX}))

\* C5 witness: wrapper/ holding a.pth and b.index, beside a __MACOSX
\* folder, has been unwrapped.
C5_Witness ==
  /\ cpc = "cleaned"
  /\ cmodel = <<"m">>
  /\ DOMAIN cdir = {MACOSX, Wrapper}
  /\ DOMAIN cdir[Wrapper].items = {<<"a", ".pth">>, <<"b", ".index">>}
  /\ crun.hoisted
  /\ DOMAIN crun.listed = {<<"a", ".pth">>, <<"b", ".index">>}
  /\ DOMAIN crun.post = {ModelPth(cmodel), ModelIndex(cmodel)}

\* The rename step (lines 312-322) took crun.listed to crun.post.
FooBar == (<<"foo", ".pth">> :> File(<< <<"foo", ".pth">> >>)) @@
          (<<"bar", ".index">> :> File(<< <<"bar", ".index">> >>))
RenameExample ==
  (crun.listed = FooBar /\ cmodel = <<"m">>) =>
    crun.post = (<<"m", ".pth">> :> FooBar[<<"foo", ".pth">>]) @@
                (<<"m", ".index">> :> FooBar[<<"bar", ".index">>])
NoOverwrite ==
  /\ \A n \in DOMAIN crun.listed : \E n2 \in DOMAIN crun.post : crun.post[n2] = crun.listed[n]
  /\ Cardinality(DOMAIN crun.post) = Cardinality(DOMAIN crun.listed)
  /\ ModelPth(cmodel) \in DOMAIN crun.listed =>
        crun.post[ModelPth(cmodel)] = crun.listed[ModelPth(cmodel)]
  /\ (ModelIndex(cmodel) \in DOMAIN crun.listed /\ ~Contains(".pth", cmodel)) =>
        crun.post[ModelIndex(cmodel)] = crun.listed[ModelIndex(cmodel)]
SecondRunChangesNothing ==
  /\ \A d2 \in RenameStep(crun.post, cmodel) : d2 = crun.post
  /\ (cpc = "cleanedAgain" /\ cagain.listed = crun.post) => cagain.post = crun.post

\* C6 as stated: foo.pth and bar.index become <model_name>.pth and
\* <model_name>.index; no existing <model_name>.pth / .index is overwritten;
\* a second run of the rename step on its own output changes nothing.
C6_RenameIdempotent ==
  Cleaned => (RenameExample /\ NoOverwrite /\ SecondRunChangesNothing)

(***************************************************************************)
(* extract (lines 203-221) and the orchestration (lines 240-284).          *)
(***************************************************************************)
\* format_title (bfrvc.units.utils): the title-cased model name.
TitleCase(t) == CASE t = "a" -> "A" [] t = "b" -> "B" [] OTHER -> t
format_title(name) == [i \in 1..Len(name) |-> TitleCase(name[i])]

\* Line 271: os.path.basename(zipfile_path).split(".zip")[0], formatted.
ModelNameOf(zipname) == format_title(Before(zipname, {".zip"}))

\* ZipFile.extractall: the entries `names` of the archive's tree land in the
\* target; a folder merges with a folder of the same name, anything else
\* replaces what was there.
Unpack(old, tree, names) ==
  [n \in names |->
     IF n \in DOMAIN old /\ old[n].kind = "dir" /\ tree[n].kind = "dir"
     THEN [tree[n] EXCEPT !.items = tree[n].items @@ old[n].items]
     ELSE tree[n]] @@ old

TargetOf(lg, mn) == IF mn \in DOMAIN lg THEN lg[mn] ELSE EmptyDir

\* Lines 214-221: every outcome of extract(zips_path/z, logs_path/mn).  A
\* file that is no archive fails to open; unpacking a sound archive may still
\* fail part-way (disk full, permissions), and os.remove may fail after it.
\* The archive is removed only on the path that returns True.
ExtractOutcome(ret, failure, st, lg) ==
  [ret |-> ret, failure |-> failure, staging |-> st, logs |-> lg]
extract_removing_always(st, lg, z, mn) ==
  LET a == st[z]
      gone == Without(st, {z})
  IN  IF a.fmt # "zip" THEN {ExtractOutcome(FALSE, "unpack", gone, lg)}
      ELSE {ExtractOutcome(TRUE, "none", gone,
                           (mn :> Unpack(TargetOf(lg, mn), a.tree, DOMAIN a.tree)) @@ lg)}
           \cup {ExtractOutcome(FALSE, "unpack", gone,
                                (mn :> Unpack(TargetOf(lg, mn), a.tree, part)) @@ lg) :
                   part \in (SUBSET DOMAIN a.tree) \ {DOMAIN a.tree}}
extract(st, lg, z, mn) ==
  LET a == st[z]
  IN  IF a.fmt # "zip" THEN {ExtractOutcome(FALSE, "unpack", st, lg)}
      ELSE {ExtractOutcome(TRUE, "none", Without(st, {z}),
                           (mn :> Unpack(TargetOf(lg, mn), a.tree, DOMAIN a.tree)) @@ lg)}
           \cup {ExtractOutcome(FALSE, "unpack", st,
                                (mn :> Unpack(TargetOf(lg, mn), a.tree, part)) @@ lg) :
                   part \in (SUBSET DOMAIN a.tree) \ {DOMAIN a.tree}}
           \cup {ExtractOutcome(FALSE, "remove", st,
                                (mn :> Unpack(TargetOf(lg, mn), a.tree, DOMAIN a.tree)) @@ lg)}

\* Lines 268-269: the first listed name that ends in .zip; os.listdir gives
\* the names in no particular order, so any of them can be the first.
ZipNames(st) == {n \in DOMAIN st : EndsWith(n, ".zip")}

\* What model_download returns: the (weights, index) pair or "Error".
NoResult == [kind |-> "none", pth |-> {}, index |-> {}]
Error == [kind |-> "Error", pth |-> {}, index |-> {}]
Pair(found) == [kind |-> "pair", pth |-> found.pth, index |-> found.index]

\* Lines 274-280: where handle_extraction_process goes after extract.
AfterExtractAlways(success) == "normalizing"
AfterExtract(success) == IF success THEN "normalizing" ELSE "error"

(***************************************************************************)
(* Spec: a single caller making up to MaxCalls calls of model_download     *)
(* against the persistent staging and logs directories.                    *)
(***************************************************************************)
ArchiveA ==
  [fmt |-> "zip", tag |-> "A",
   tree |-> (<<"foo", ".pth">> :> File(<<"A", <<"foo", ".pth">> >>)) @@
            (<<"bar", ".index">> :> File(<<"A", <<"bar", ".index">> >>))]
ArchiveB ==
  [fmt |-> "zip", tag |-> "B",
   tree |-> (MACOSX :> Dir(<<"B", MACOSX>>, EmptyDir)) @@
            (Wrapper :> Dir(<<"B", Wrapper>>,
                            (<<"a", ".pth">> :> File(<<"B", Wrapper, <<"a", ".pth">> >>))))]
ArchiveC ==
  [fmt |-> "zip", tag |-> "C",
   tree |-> (Wrapper :> Dir(<<"C", Wrapper>>,
                            (Wrapper :> Dir(<<"C", Wrapper, Wrapper>>, EmptyDir))))]
Garbage == [fmt |-> "garbage", tag |-> "G", tree |-> EmptyDir]
Bodies == {ArchiveA, ArchiveB, ArchiveC, Garbage}

NamedHeader(t) == <<"filename=", Quote, t, ".zip", Quote>>
PipeHeaders == {<<>>, NamedHeader("a"), NamedHeader("b")}

\* The calls the caller makes: a generic URL answered 200 with any header
\* and body, a generic URL answered 404, and an unusable Google Drive URL.
Inputs ==
  {[url |-> <<"x">>, resp |-> [DefaultResponse EXCEPT !.header = h, !.body = b]] :
     h \in PipeHeaders, b \in Bodies}
  \cup {[url |-> <<"x">>, resp |-> [DefaultResponse EXCEPT !.status = 404, !.body = ArchiveA]]}
  \cup {[url |-> <<"drive.google.com", "x">>, resp |-> [DefaultResponse EXCEPT !.body = ArchiveA]]}

NoCall == [url |-> <<>>, resp |-> DefaultResponse, fetched |-> "None",
           zip |-> <<>>, model |-> <<>>, archive |-> Garbage,
           extracted |-> FALSE, failure |-> "none", unpacked |-> EmptyDir,
           cleanRaised |-> FALSE]

Init ==
  /\ pc = "idle"
  /\ staging = EmptyDir
  /\ logs = EmptyDir
  /\ calls = 0
  /\ cur = NoCall
  /\ trace = <<>>
  /\ result = NoResult
  /\ HeaderOff /\ FetchOff /\ CleanOff

\* model_download(url) is called (line 240).
Call ==
  /\ pc = "idle"
  /\ calls < MaxCalls
  /\ \E in \in Inputs : cur' = [NoCall EXCEPT !.url = in.url, !.resp = in.resp]
  /\ calls' = calls + 1
  /\ pc' = "fetching"
  /\ trace' = <<>>
  /\ result' = NoResult
  /\ UNCHANGED <<staging, logs, headerVars, fetchVars, cleanVars>>

\* Lines 251-255: download_from_url, then the branch on its result.
Fetch ==
  /\ pc = "fetching"
  /\ LET f == download_from_url(cur.url, cur.resp, staging)
     IN  /\ staging' = f.staging
         /\ cur' = [cur EXCEPT !.fetched = f.ret]
         /\ IF f.ret = "downloaded"
            THEN pc' = "extracting" /\ result' = result
            ELSE pc' = "error" /\ result' = Error
  /\ trace' = Append(trace, "fetch")
  /\ UNCHANGED <<logs, calls, headerVars, fetchVars, cleanVars>>

\* Lines 268-283 up to the return of extract: no archive in staging is an
\* error; otherwise the first archive listed is extracted.
ExtractStage ==
  /\ pc = "extracting"
  /\ IF ZipNames(staging) = {}
     THEN /\ pc' = "error"
          /\ result' = Error
          /\ UNCHANGED <<staging, logs, cur, trace>>
     ELSE \E z \in ZipNames(staging) :
            \E o \in extract(staging, logs, z, ModelNameOf(z)) :
              /\ staging' = o.staging
              /\ logs' = o.logs
              /\ cur' = [cur EXCEPT !.zip = z, !.model = ModelNameOf(z),
                                    !.archive = staging[z], !.extracted = o.ret,
                                    !.failure = o.failure,
                                    !.unpacked = TargetOf(o.logs, ModelNameOf(z))]
              /\ pc' = AfterExtract(o.ret)
              /\ result' = IF AfterExtract(o.ret) = "error" THEN Error ELSE result
              /\ trace' = Append(trace, "extract")
  /\ UNCHANGED <<calls, headerVars, fetchVars, cleanVars>>

\* Line 275; an exception of clean_extracted_files is caught at line 256.
Normalize ==
  /\ pc = "normalizing"
  /\ \E o \in clean_extracted_files(TargetOf(logs, cur.model), cur.model) :
       /\ logs' = (cur.model :> o.post) @@ logs
       /\ cur' = [cur EXCEPT !.cleanRaised = o.raised]
       /\ IF o.raised
          THEN pc' = "error" /\ result' = Error
          ELSE pc' = "searching" /\ result' = result
  /\ trace' = Append(trace, "normalize")
  /\ UNCHANGED <<staging, calls, headerVars, fetchVars, cleanVars>>

\* Line 277.
SearchStage ==
  /\ pc = "searching"
  /\ result' = Pair(search_pth_index(TargetOf(logs, cur.model)))
  /\ pc' = "done"
  /\ trace' = Append(trace, "search")
  /\ UNCHANGED <<staging, logs, calls, cur, headerVars, fetchVars, cleanVars>>

\* model_download returns to the caller.
Return ==
  /\ pc \in {"done", "error"}
  /\ pc' = "idle"
  /\ UNCHANGED <<staging, logs, calls, cur, trace, result, headerVars, fetchVars, cleanVars>>

Next == Call \/ Fetch \/ ExtractStage \/ Normalize \/ SearchStage \/ Return

Spec == Init /\ [][Next]_vars

Stages == <<"fetch", "extract", "normalize", "search">>
IsPrefix(s, t) == Len(s) <= Len(t) /\ s = SubSeq(t, 1, Len(s))
\* The name under which this call's download was saved.
FetchedName == SaveResponseContent(cur.resp.header).name

\* C1: the stages of a call run in the order fetch, extract, normalize,
\* search; the pair is returned only after fetch, extract and normalize
\* all succeeded; a failing stage (no download, no archive in staging,
\* extract returning False, clean_extracted_files raising) ends the call at
\* once with "Error", no later stage having run.
C1_StageOrder ==
  /\ IsPrefix(trace, Stages)
  /\ result.kind \in {"none", "pair", "Error"}
  /\ (pc = "done" \/ result.kind = "pair") =>
       /\ trace = Stages
       /\ result.kind = "pair"
       /\ cur.fetched = "downloaded" /\ cur.extracted /\ ~cur.cleanRaised
  /\ (pc = "error" \/ result.kind = "Error") =>
       /\ result = Error
       /\ cur.fetched = "None" => trace = <<"fetch">>
       /\ (cur.fetched = "downloaded" /\ cur.zip = <<>>) => trace = <<"fetch">>
       /\ (cur.zip # <<>> /\ ~cur.extracted) => trace = <<"fetch", "extract">>
       /\ cur.cleanRaised => trace = <<"fetch", "extract", "normalize">>
       /\ \/ cur.fetched = "None"
          \/ cur.zip = <<>>
          \/ ~cur.extracted
          \/ cur.cleanRaised
  /\ (pc = "idle" /\ calls > 0) => result.kind \in {"pair", "Error"}

\* C1 witness: a second call has run all four stages and returned weights.
C1_Witness ==
  /\ pc = "done"
  /\ calls = 2
  /\ trace = Stages
  /\ result.kind = "pair" /\ result.pth # {}

\* C4: in the state extract leaves behind, True was returned only with every
\* entry of the archive unpacked into the destination and the archive
\* deleted; any failure gave False (the call ends with "Error", nothing is
\* raised); and whenever unpacking failed the archive is still in staging.
C4_ExtractKeepsArchiveOnFailure ==
  trace = <<"fetch", "extract">> =>
    /\ cur.extracted <=> cur.failure = "none"
    /\ cur.extracted =>
         /\ pc = "normalizing"
         /\ cur.zip \notin DOMAIN staging
         /\ \A n \in DOMAIN cur.archive.tree :
              /\ n \in DOMAIN TargetOf(logs, cur.model)
              /\ TargetOf(logs, cur.model)[n].id = cur.archive.tree[n].id
    /\ ~cur.extracted => (pc \in {"error", "idle"} /\ result = Error)
    /\ cur.failure \in {"unpack", "remove"} =>
         /\ cur.zip \in DOMAIN staging
         /\ staging[cur.zip] = cur.archive

\* C4 witness: unpacking a sound archive failed part-way; the archive is
\* still in staging.
C4_Witness ==
  /\ trace = <<"fetch", "extract">>
  /\ cur.failure = "unpack"
  /\ cur.archive = ArchiveA
  /\ DOMAIN cur.unpacked = {<<"foo", ".pth">>}
  /\ cur.zip \in DOMAIN staging

\* C10: a call that processes an archive processes the one it fetched
\* itself: the pair it returns comes from that archive's target directory,
\* and an error after the download of a sound archive is an error met on
\* that archive, never on one left in staging by an earlier call.
C10_OwnArchive ==
  /\ result.kind = "pair" =>
       (cur.zip = FetchedName /\ cur.archive = cur.resp.body)
  /\ (/\ result.kind = "Error"
      /\ cur.fetched = "downloaded"
      /\ EndsWith(FetchedName, ".zip")
      /\ cur.resp.body.fmt = "zip") =>
       (cur.zip = FetchedName /\ cur.archive = cur.resp.body)

====
